---- MODULE Spec2Model ----
(***************************************************************************)
(* The Sudoku board of sudoku.py: one Sudoku object, the grid the caller   *)
(* handed to its constructor, and the calls a caller makes on the object.  *)
(*                                                                         *)
(* Python lists are objects: every row list lives on a heap and the board  *)
(* and the caller's grid hold references to rows, so that sharing a row    *)
(* between the two is something a state can express.  A call that raises   *)
(* returns the exception's name as its result and leaves the object as it  *)
(* was.  A Python list is a sequence: the element the code reads at index  *)
(* i is element i + 1 of the sequence.                                     *)
(***************************************************************************)
EXTENDS Integers, Sequences, FiniteSets, TLC

VARIABLES dim, heap, board, callerGrid, moves, op, ret

vars == <<dim, heap, board, callerGrid, moves, op, ret>>

(* ---------------------------- bounds and inputs ------------------------ *)

\* The longest move history explored: add_move is taken only while the
\* history is shorter (the code's list has no limit).
MaxMoves == 2

\* The dimensions a board is constructed with.
Dims == {3, 9}

\* A valid, complete 9x9 solution; the same grid with 1 and 9 each placed
\* twice in a row and one cell emptied; and a 3x3 pattern of 1s and 0s.
SolvedGrid ==
    [r \in 1..9 |-> [c \in 1..9 |->
        ((3 * ((r - 1) % 3) + ((r - 1) \div 3) + (c - 1)) % 9) + 1]]
DefectGrid == [SolvedGrid EXCEPT ![1][2] = 1, ![9][8] = 9, ![6][6] = 0]
PatternGrid == [r \in 1..3 |-> [c \in 1..3 |-> IF (r + c) % 2 = 0 THEN 1 ELSE 0]]

\* The board argument of the constructor: None, or a dim x dim grid.
NoBoard == [given |-> FALSE, grid |-> <<>>]
BoardArgs(d) ==
    {NoBoard} \cup {[given |-> TRUE, grid |-> g] :
                      g \in IF d = 9 THEN {SolvedGrid, DefectGrid} ELSE {PatternGrid}}
\* The caller's grid when the constructor was given none.
NoGrid == <<>>

\* (row, col) arguments of get_square / set_square: two cells of one row, two
\* of one column, two of one block, and negative indices (cell (0, 4) of a
\* 9x9 board, off a 3x3 board like (0, 4) and (4, 0)).
SquareArgs == {<<0, 0>>, <<0, 4>>, <<4, 0>>, <<1, 1>>, <<-9, -5>>}
\* Numbers written; 5 lies outside [0, dim] on a board of dimension 3.
NumArgs == {0, 5}
\* Numbers searched for.
FindArgs == {0, 1}
\* Moves recorded; the last one names a position off every board.
MoveArgs == {<<<<2, 2>>, 3, TRUE>>, <<<<9, 9>>, 1, FALSE>>}
\* The write the caller makes to the grid it passed to the constructor.
CallerWrites == {<<0, 0, 5>>}

(* ------------------------------ Python values -------------------------- *)

None == [kind |-> "None"]
IndexError == [kind |-> "IndexError"]
Value(k, v) == [kind |-> k, val |-> v]
Call(name, args) == [name |-> name, args |-> args]

\* lst[i] for a list of length n: valid for -n <= i < n, negative i counts
\* from the end.
PyIndexOK(i, n) == -n <= i /\ i < n
PyIdx(i, n) == IF i < 0 THEN i + n ELSE i

\* self._board[row][col] for row, col in range(dim)
Cell(row, col) == heap[board[row + 1]][col + 1]

(* ------------------------------- __init__ ------------------------------ *)

\* The addresses of the rows of the caller's grid, and of d new rows.
CallerRows(d) == [r \in 1..d |-> r]
FreshRows(d) == [r \in 1..d |-> d + r]

\* A plausible slip: the rows of the argument are kept, not copied.
Sudoku_init_shared(d, b) ==
    /\ dim = d
    /\ moves = <<>>
    /\ IF ~b.given
       THEN /\ callerGrid = NoGrid
            /\ board = FreshRows(d)
            /\ heap = [a \in (d + 1)..(2 * d) |-> [c \in 1..d |-> 0]]
       ELSE /\ callerGrid = CallerRows(d)
            /\ board = CallerRows(d)
            /\ heap = [a \in 1..d |-> b.grid[a]]
    /\ op = Call("__init__", <<d>>)
    /\ ret = None

Sudoku_init(d, b) ==
    /\ dim = d
    /\ moves = <<>>
    /\ IF ~b.given
       THEN /\ callerGrid = NoGrid
            /\ board = FreshRows(d)
            /\ heap = [a \in (d + 1)..(2 * d) |-> [c \in 1..d |-> 0]]
       ELSE /\ callerGrid = CallerRows(d)
            /\ board = FreshRows(d)
            /\ heap = [a \in 1..(2 * d) |->
                         IF a <= d THEN b.grid[a]
                         ELSE [c \in 1..d |-> b.grid[a - d][c]]]
    /\ op = Call("__init__", <<d>>)
    /\ ret = None

Init == \E d \in Dims : \E b \in BoardArgs(d) : Sudoku_init(d, b)

\* The caller writes grid[row][col] = num on the grid it constructed from.
CallerWrite(row, col, num) ==
    /\ DOMAIN callerGrid # {}
    /\ heap' = [heap EXCEPT ![callerGrid[row + 1]][col + 1] = num]
    /\ op' = Call("caller_write", <<row, col, num>>)
    /\ ret' = None
    /\ UNCHANGED <<dim, board, callerGrid, moves>>

(* ------------------------------ Board Store ---------------------------- *)

get_dim ==
    /\ op' = Call("get_dim", <<>>)
    /\ ret' = Value("int", dim)
    /\ UNCHANGED <<dim, heap, board, callerGrid, moves>>

get_square_result(row, col) ==
    IF PyIndexOK(row, dim) /\ PyIndexOK(col, dim)
    THEN Value("int", Cell(PyIdx(row, dim), PyIdx(col, dim)))
    ELSE IndexError

get_square(row, col) ==
    /\ op' = Call("get_square", <<row, col>>)
    /\ ret' = get_square_result(row, col)
    /\ UNCHANGED <<dim, heap, board, callerGrid, moves>>

\* A plausible slip: pop(0), the oldest move instead of the newest.
get_last_move_oldest ==
    /\ op' = Call("get_last_move", <<>>)
    /\ IF moves # <<>>
       THEN /\ ret' = Value("move", Head(moves))
            /\ moves' = Tail(moves)
       ELSE /\ ret' = None
            /\ moves' = moves
    /\ UNCHANGED <<dim, heap, board, callerGrid>>

get_last_move ==
    /\ op' = Call("get_last_move", <<>>)
    /\ IF moves # <<>>
       THEN /\ ret' = Value("move", moves[Len(moves)])
            /\ moves' = SubSeq(moves, 1, Len(moves) - 1)
       ELSE /\ ret' = None
            /\ moves' = moves
    /\ UNCHANGED <<dim, heap, board, callerGrid>>

\* A plausible slip: the indices swapped, self._board[col][row] = num.
set_square_swapped(row, col, num) ==
    /\ op' = Call("set_square", <<row, col, num>>)
    /\ IF PyIndexOK(row, dim) /\ PyIndexOK(col, dim)
       THEN /\ heap' = [heap EXCEPT ![board[PyIdx(col, dim) + 1]][PyIdx(row, dim) + 1] = num]
            /\ ret' = None
       ELSE /\ heap' = heap
            /\ ret' = IndexError
    /\ UNCHANGED <<dim, board, callerGrid, moves>>

set_square(row, col, num) ==
    /\ op' = Call("set_square", <<row, col, num>>)
    /\ IF PyIndexOK(row, dim) /\ PyIndexOK(col, dim)
       THEN /\ heap' = [heap EXCEPT ![board[PyIdx(row, dim) + 1]][PyIdx(col, dim) + 1] = num]
            /\ ret' = None
       ELSE /\ heap' = heap
            /\ ret' = IndexError
    /\ UNCHANGED <<dim, board, callerGrid, moves>>

\* A plausible slip: recording a move also places it.
add_move_placing(pos, num, pencil) ==
    /\ Len(moves) < MaxMoves
    /\ op' = Call("add_move", <<pos, num, pencil>>)
    /\ moves' = Append(moves, <<pos, num, pencil>>)
    /\ heap' = IF PyIndexOK(pos[1], dim) /\ PyIndexOK(pos[2], dim)
               THEN [heap EXCEPT ![board[PyIdx(pos[1], dim) + 1]][PyIdx(pos[2], dim) + 1] = num]
               ELSE heap
    /\ ret' = None
    /\ UNCHANGED <<dim, board, callerGrid>>

\* A plausible slip: the position stored one-based.
add_move_one_based(pos, num, pencil) ==
    /\ Len(moves) < MaxMoves
    /\ op' = Call("add_move", <<pos, num, pencil>>)
    /\ moves' = Append(moves, <<<<pos[1] + 1, pos[2] + 1>>, num, pencil>>)
    /\ ret' = None
    /\ UNCHANGED <<dim, heap, board, callerGrid>>

add_move(pos, num, pencil) ==
    /\ Len(moves) < MaxMoves
    /\ op' = Call("add_move", <<pos, num, pencil>>)
    /\ moves' = Append(moves, <<pos, num, pencil>>)
    /\ ret' = None
    /\ UNCHANGED <<dim, heap, board, callerGrid>>

\* The two nested loops of get_pos_from_num, row outer and column inner:
\* the positions appended from (row, col) on, in the order the loops append.
RECURSIVE ScanCols(_, _, _)
ScanCols(num, row, col) ==
    IF col = dim THEN <<>>
    ELSE (IF Cell(row, col) = num THEN <<(<<row, col>>)>> ELSE <<>>)
             \o ScanCols(num, row, col + 1)

RECURSIVE ScanRows(_, _)
ScanRows(num, row) ==
    IF row = dim THEN <<>>
    ELSE ScanCols(num, row, 0) \o ScanRows(num, row + 1)

\* A plausible slip: the loops nested the other way round.
RECURSIVE ScanRowsOfCol(_, _, _)
ScanRowsOfCol(num, col, row) ==
    IF row = dim THEN <<>>
    ELSE (IF Cell(row, col) = num THEN <<(<<row, col>>)>> ELSE <<>>)
             \o ScanRowsOfCol(num, col, row + 1)

RECURSIVE ScanColsFirst(_, _)
ScanColsFirst(num, col) ==
    IF col = dim THEN <<>>
    ELSE ScanRowsOfCol(num, col, 0) \o ScanColsFirst(num, col + 1)

get_pos_from_num_column_major(num) == Value("list", ScanColsFirst(num, 0))

get_pos_from_num_result(num) == Value("list", ScanRows(num, 0))

get_pos_from_num(num) ==
    /\ op' = Call("get_pos_from_num", <<num>>)
    /\ ret' = get_pos_from_num_result(num)
    /\ UNCHANGED <<dim, heap, board, callerGrid, moves>>

(* --------------------------- Constraint Validator ---------------------- *)

CELL_IDX == <<<<0, 1, 2>>, <<3, 4, 5>>, <<6, 7, 8>>>>

\* The indices the cell loops read: every entry of CELL_IDX, as a row and as
\* a column.
CellIndices == {CELL_IDX[i][j] : i \in 1..3, j \in 1..3}

\* rows = self._board.copy(): the outer list copied, the row lists shared.
RECURSIVE RowsFrom(_)
RowsFrom(row) ==
    IF row = dim THEN <<>> ELSE <<heap[board[row + 1]]>> \o RowsFrom(row + 1)

\* cols: for col in range(dim), the column list appended to from row on.
RECURSIVE ColumnFrom(_, _)
ColumnFrom(col, row) ==
    IF row = dim THEN <<>> ELSE <<Cell(row, col)>> \o ColumnFrom(col, row + 1)

RECURSIVE ColsFrom(_)
ColsFrom(col) ==
    IF col = dim THEN <<>> ELSE <<ColumnFrom(col, 0)>> \o ColsFrom(col + 1)

\* cell: for row in idx1, for col in idx2, append the square at (row, col).
CellOf(idx1, idx2) ==
    LET AlongRow(row) == <<Cell(row, idx2[1]), Cell(row, idx2[2]), Cell(row, idx2[3])>>
    IN  AlongRow(idx1[1]) \o AlongRow(idx1[2]) \o AlongRow(idx1[3])

\* cells: for idx1 in CELL_IDX, for idx2 in CELL_IDX, append the cell.
Cells ==
    LET AlongGroup(idx1) ==
            <<CellOf(idx1, CELL_IDX[1]), CellOf(idx1, CELL_IDX[2]), CellOf(idx1, CELL_IDX[3])>>
    IN  AlongGroup(CELL_IDX[1]) \o AlongGroup(CELL_IDX[2]) \o AlongGroup(CELL_IDX[3])

\* A plausible slip: the columns read as self._board[col][row].
get_row_col_cell_untransposed ==
    IF \E i \in CellIndices : ~PyIndexOK(i, dim)
    THEN IndexError
    ELSE [kind |-> "groups", rows |-> RowsFrom(0), cols |-> RowsFrom(0), cells |-> Cells]

\* The cell loops read rows and columns 0..8 whatever dim is: on a board with
\* fewer rows or columns self._board[row][col] raises IndexError.
get_row_col_cell_result ==
    IF \E i \in CellIndices : ~PyIndexOK(i, dim)
    THEN IndexError
    ELSE [kind |-> "groups", rows |-> RowsFrom(0), cols |-> ColsFrom(0), cells |-> Cells]

get_row_col_cell ==
    /\ op' = Call("get_row_col_cell", <<>>)
    /\ ret' = get_row_col_cell_result
    /\ UNCHANGED <<dim, heap, board, callerGrid, moves>>

\* set(config) and config.count(num)
SetOf(config) == {config[i] : i \in 1..Len(config)}
Count(config, num) == Cardinality({i \in 1..Len(config) : config[i] = num})

\* lst: the rows, then the columns, then the cells, in one list.  The loop
\* over lst only adds to a set, so it is taken over the configs of lst in no
\* order.
Configs(rcc) == rcc.rows \o rcc.cols \o rcc.cells

\* The body of verify_board once row_col_cells holds what get_row_col_cell
\* returned.
VerifyWith(row_col_cells) ==
    IF row_col_cells.kind = "IndexError" THEN IndexError
    ELSE LET lst == Configs(row_col_cells)
             state == \A row \in 1..dim : 0 \notin SetOf(heap[board[row]])
             duplicate_num ==
                 UNION {{num \in SetOf(config) : Count(config, num) > 1 /\ num # 0} :
                          config \in SetOf(lst)}
         IN  IF duplicate_num = {} THEN Value("bool", state)
             ELSE Value("set", duplicate_num)

\* A plausible slip: the test num != 0 left out.
VerifyCountingZeroWith(row_col_cells) ==
    IF row_col_cells.kind = "IndexError" THEN IndexError
    ELSE LET lst == Configs(row_col_cells)
             state == \A row \in 1..dim : 0 \notin SetOf(heap[board[row]])
             duplicate_num ==
                 UNION {{num \in SetOf(config) : Count(config, num) > 1} :
                          config \in SetOf(lst)}
         IN  IF duplicate_num = {} THEN Value("bool", state)
             ELSE Value("set", duplicate_num)

verify_board_counting_zero ==
    CHOOSE r \in {VerifyCountingZeroWith(row_col_cells) :
                    row_col_cells \in {get_row_col_cell_result}} : TRUE

\* row_col_cells = self.get_row_col_cell(), called once, then the body.
verify_board_result ==
    CHOOSE r \in {VerifyWith(row_col_cells) :
                    row_col_cells \in {get_row_col_cell_result}} : TRUE

\* A plausible slip: duplicates found by sorting each config in place; the
\* rows of get_row_col_cell are the board's own row lists.
verify_board_sorting ==
    /\ op' = Call("verify_board", <<>>)
    /\ ret' = verify_board_result
    /\ heap' = [a \in DOMAIN heap |->
                  IF \E row \in 1..dim : board[row] = a
                  THEN SortSeq(heap[a], LAMBDA x, y : x < y)
                  ELSE heap[a]]
    /\ UNCHANGED <<dim, board, callerGrid, moves>>

verify_board ==
    /\ op' = Call("verify_board", <<>>)
    /\ ret' = verify_board_result
    /\ UNCHANGED <<dim, heap, board, callerGrid, moves>>

(* ------------------------------ specification -------------------------- *)

Next ==
    \/ get_dim
    \/ \E p \in SquareArgs : get_square(p[1], p[2])
    \/ get_last_move
    \/ \E p \in SquareArgs : \E num \in NumArgs : set_square(p[1], p[2], num)
    \/ \E m \in MoveArgs : add_move(m[1], m[2], m[3])
    \/ \E num \in FindArgs : get_pos_from_num(num)
    \/ get_row_col_cell
    \/ verify_board
    \/ \E w \in CallerWrites : CallerWrite(w[1], w[2], w[3])

Spec == Init /\ [][Next]_vars

(* ------------------------- the grid as a caller sees it ---------------- *)

Positions == (0..(dim - 1)) \X (0..(dim - 1))
\* get_square at every in-range position
GridOf == [p \in Positions |-> get_square_result(p[1], p[2]).val]
\* get_square(p[1], p[2]) for an in-range position p
CellAt(p) == Cell(p[1], p[2])
\* the grid the constructor was given, as its owner reads it now
CallerGridOf ==
    IF DOMAIN callerGrid = {} THEN <<>>
    ELSE [p \in Positions |-> heap[callerGrid[p[1] + 1]][p[2] + 1]]

\* Two results are the same kind of value and, when they carry one, the
\* same value.
SameResult(a, b) ==
    \A x \in {a} : \A y \in {b} :
        /\ x.kind = y.kind
        /\ x.kind \in {"bool", "set", "int", "move", "list"} => x.val = y.val

(* --------------------------------- C1 ---------------------------------- *)

\* Two positions of one row, one column or one 3x3 block.
SameGroup(p, q) ==
    \/ p[1] = q[1]
    \/ p[2] = q[2]
    \/ (p[1] \div 3 = q[1] \div 3 /\ p[2] \div 3 = q[2] \div 3)

\* D: the non-zero values that occur at two different positions of one group.
DuplicatedValues ==
    {CellAt(p) : p \in {p \in Positions :
        /\ CellAt(p) # 0
        /\ \E q \in Positions : q # p /\ SameGroup(p, q) /\ CellAt(q) = CellAt(p)}}

GridComplete == \A p \in Positions : CellAt(p) # 0

\* C1: on a 9x9 grid with cells in 0..9, verify_board returns the boolean
\* "no cell is 0" when no non-zero value is duplicated in a row, column or
\* block, and otherwise exactly the set of the duplicated values.
C1_VerifyBoardResult ==
    (op.name = "verify_board" /\ dim = 9 /\ \A p \in Positions : CellAt(p) \in 0..9)
        => LET D == DuplicatedValues
           IN  IF D = {}
               THEN ret.kind = "bool" /\ ret.val = GridComplete
               ELSE ret.kind = "set" /\ ret.val = D

\* verify_board has returned a set of duplicates for a grid that still has
\* empty cells.
C1_Witness ==
    /\ op.name = "verify_board"
    /\ dim = 9
    /\ \A p \in Positions : CellAt(p) \in 0..9
    /\ ret.kind = "set"
    /\ ~GridComplete

(* --------------------------------- C2 ---------------------------------- *)

\* C2: verify_board never fails: on a board of any constructed dimension it
\* returns a boolean or a non-empty set, never an error.
C2_VerifyBoardNeverFails ==
    op.name = "verify_board"
        => \/ ret.kind = "bool"
           \/ (ret.kind = "set" /\ ret.val # {})

(* --------------------------------- C3 ---------------------------------- *)

\* C3: on a board of dimension 9, get_row_col_cell returns 9 rows, 9 columns
\* and 9 blocks of 9 values each, with rows[i][j] = grid[i][j],
\* columns[j][i] = grid[i][j] and blocks[3a+b][3p+q] = grid[3a+p][3b+q].
C3_Decomposition ==
    (op.name = "get_row_col_cell" /\ dim = 9)
        => /\ ret.kind = "groups"
           /\ Len(ret.rows) = 9 /\ Len(ret.cols) = 9 /\ Len(ret.cells) = 9
           /\ \A k \in 1..9 :
                Len(ret.rows[k]) = 9 /\ Len(ret.cols[k]) = 9 /\ Len(ret.cells[k]) = 9
           /\ \A i \in 0..8 : \A j \in 0..8 :
                /\ ret.rows[i + 1][j + 1] = CellAt(<<i, j>>)
                /\ ret.cols[j + 1][i + 1] = CellAt(<<i, j>>)
           /\ \A a \in 0..2 : \A b \in 0..2 : \A p \in 0..2 : \A q \in 0..2 :
                ret.cells[3 * a + b + 1][3 * p + q + 1] = CellAt(<<3 * a + p, 3 * b + q>>)

\* get_row_col_cell has decomposed a 9x9 grid that is not symmetric.
C3_Witness ==
    /\ op.name = "get_row_col_cell"
    /\ dim = 9
    /\ ret.kind = "groups"
    /\ CellAt(<<0, 4>>) # CellAt(<<4, 0>>)
    /\ CellAt(<<0, 1>>) # CellAt(<<1, 0>>)

(* --------------------------------- C4 ---------------------------------- *)

\* C4: the move history is a stack: add_move puts the triple (position,
\* value, is_pencil) on top; get_last_move returns the newest move not yet
\* returned, exactly as recorded, and removes only it; on an empty history it
\* returns None and the history stays empty.
C4_MoveHistoryLIFO ==
    [][/\ op'.name = "add_move" => moves' = Append(moves, op'.args)
       /\ (op'.name = "get_last_move" /\ moves # <<>>)
              => /\ ret'.kind = "move"
                 /\ ret'.val = moves[Len(moves)]
                 /\ Len(ret'.val) = 3
                 /\ moves' = [i \in 1..(Len(moves) - 1) |-> moves[i]]
       /\ (op'.name = "get_last_move" /\ moves = <<>>)
              => ret'.kind = "None" /\ moves' = <<>>
       /\ (op.name = "add_move" /\ op'.name = "get_last_move")
              => ret'.kind = "move" /\ ret'.val = op.args
      ]_vars

\* get_last_move has returned a move and an older move is still recorded.
C4_Witness ==
    /\ op.name = "get_last_move"
    /\ ret.kind = "move"
    /\ Len(moves) = 1
    /\ moves[1] # ret.val

(* --------------------------------- C5 ---------------------------------- *)

\* C5: add_move and get_last_move leave every grid cell as it was, and
\* set_square leaves the move history as it was.
C5_MovesAndGridIndependent ==
    [][/\ op'.name \in {"add_move", "get_last_move"} => GridOf' = GridOf
       /\ op'.name = "set_square" => moves' = moves
      ]_vars

\* A move has been recorded for an in-range cell that does not hold the
\* move's number.
C5_Witness ==
    /\ op.name = "add_move"
    /\ op.args[1] \in Positions
    /\ CellAt(op.args[1]) # op.args[2]

(* --------------------------------- C6 ---------------------------------- *)

\* C6: a board constructed from a grid holds that grid's values; a later
\* write to the caller's grid leaves every cell of the board as it was, and
\* set_square leaves the caller's grid as it was.
C6_ConstructionCopies ==
    [][/\ (op.name = "__init__" /\ DOMAIN callerGrid # {}) => GridOf = CallerGridOf
       /\ op'.name = "caller_write" => GridOf' = GridOf
       /\ op'.name = "set_square" => CallerGridOf' = CallerGridOf
      ]_vars

\* The caller has written to its grid and the board's cell differs from it.
C6_Witness ==
    /\ op.name = "caller_write"
    /\ CellAt(<<op.args[1], op.args[2]>>) # op.args[3]
    /\ heap[callerGrid[op.args[1] + 1]][op.args[2] + 1] = op.args[3]

(* --------------------------------- C7 ---------------------------------- *)

\* C7: after set_square(row, col, num) with 0 <= row, col < dim, get_square
\* (row, col) returns num and get_square of every other position returns
\* what it returned before; get_square returns the cell's current value.
C7_SetThenGet ==
    [][/\ \A a \in SquareArgs : \A num \in NumArgs :
            (op' = Call("set_square", <<a[1], a[2], num>>) /\ a \in Positions)
               => /\ get_square_result(a[1], a[2])' = Value("int", num)
                  /\ GridOf' = [GridOf EXCEPT ![a] = num]
       /\ \A a \in SquareArgs :
            op' = Call("get_square", a) => ret' = get_square_result(a[1], a[2])'
      ]_vars

\* set_square has overwritten a cell that held another number.
C7_Witness ==
    /\ op.name = "set_square"
    /\ <<op.args[1], op.args[2]>> \in Positions
    /\ op.args[1] # op.args[2]
    /\ op.args[3] = 5
    /\ CellAt(<<op.args[1], op.args[2]>>) = 5
    /\ \E p \in Positions : CellAt(p) = 0

(* --------------------------------- C8 ---------------------------------- *)

RowMajorLess(p, q) == p[1] < q[1] \/ (p[1] = q[1] /\ p[2] < q[2])

\* C8: get_pos_from_num(num) returns exactly the in-range positions whose
\* cell equals num, in strictly increasing row-major order; on an all-zero
\* board get_pos_from_num(0) returns all dim * dim positions.
C8_FindPositions ==
    op.name = "get_pos_from_num"
        => /\ ret.kind = "list"
           /\ \A i \in 1..Len(ret.val) :
                ret.val[i] \in Positions /\ CellAt(ret.val[i]) = op.args[1]
           /\ \A p \in Positions :
                CellAt(p) = op.args[1] => \E i \in 1..Len(ret.val) : ret.val[i] = p
           /\ \A i \in 1..Len(ret.val) : \A j \in 1..Len(ret.val) :
                i < j => RowMajorLess(ret.val[i], ret.val[j])
           /\ (op.args[1] = 0 /\ \A p \in Positions : CellAt(p) = 0)
                => Len(ret.val) = dim * dim

\* get_pos_from_num(1) on the 3x3 pattern board has returned its five
\* positions.
C8_Witness ==
    /\ op.name = "get_pos_from_num"
    /\ op.args[1] = 1
    /\ dim = 3
    /\ ret.kind = "list"
    /\ ret.val = <<(<<0, 0>>), (<<0, 2>>), (<<1, 1>>), (<<2, 0>>), (<<2, 2>>)>>

(* --------------------------------- C9 ---------------------------------- *)

DataModelInvariant ==
    /\ \A p \in Positions : CellAt(p) \in 0..dim
    /\ \A i \in 1..Len(moves) : moves[i][1] \in Positions

\* C9: in every state reached from an empty board by set_square and add_move
\* calls, every cell lies in [0, dim] and every stored move has
\* 0 <= row, col < dim.
C9_DataModelInvariant == DOMAIN callerGrid = {} => DataModelInvariant

\* C9 as it holds: an empty board satisfies the data-model invariant, and
\* the invariant survives every set_square whose number lies in [0, dim] and
\* every add_move whose position has 0 <= row, col < dim.
C9_InvariantUnderInRangeCalls ==
    [][/\ (op.name = "__init__" /\ DOMAIN callerGrid = {}) => DataModelInvariant
       /\ (/\ DataModelInvariant
           /\ op'.name = "set_square" => op'.args[3] \in 0..dim
           /\ op'.name = "add_move" => op'.args[1] \in Positions)
             => DataModelInvariant'
      ]_vars

\* An empty board has taken an in-range write and an in-range move.
C9_Witness ==
    /\ DOMAIN callerGrid = {}
    /\ op.name = "add_move"
    /\ op.args[1] \in Positions
    /\ \E p \in Positions : CellAt(p) # 0
    /\ DataModelInvariant

(* --------------------------------- C10 --------------------------------- *)

\* C10: verify_board and get_row_col_cell change nothing; verify_board
\* returns the result the current grid determines, and add_move and
\* get_last_move do not change that result.
C10_CheckIsPure ==
    [][/\ op'.name \in {"verify_board", "get_row_col_cell"}
             => UNCHANGED <<dim, heap, board, callerGrid, moves>>
       /\ op'.name = "verify_board" => SameResult(ret', verify_board_result')
       /\ op'.name \in {"add_move", "get_last_move"}
             => SameResult(verify_board_result', verify_board_result)
      ]_vars

\* verify_board has reported duplicates on a board with recorded moves.
C10_Witness ==
    /\ op.name = "verify_board"
    /\ dim = 9
    /\ moves # <<>>
    /\ ret.kind = "set"

====
